---- MODULE Spec2Model ----
(***************************************************************************)
(* A model of storage/cassandra/db.js: the predicate compiler, the schema  *)
(* manager (validateSchema, generateIndexSchema, _getSchema), the write    *)
(* planner (buildPutQuery, _put, executeCql) and the promise chains of     *)
(* createTable, get, put, delete and dropTable on one DB instance over one *)
(* keyspace.                                                               *)
(*                                                                         *)
(* JavaScript objects are sequences of <<key, value>> pairs in insertion   *)
(* order (the order for..in and Object.keys follow).  A request value is a *)
(* record [t, v, ops]: t is the run-time type, v the scalar's text, ops    *)
(* the <<operator, arguments>> pairs of an operator object.  A statement   *)
(* text is the sequence of the string fragments the code concatenates.     *)
(***************************************************************************)
EXTENDS Integers, Sequences, FiniteSets, TLC

VARIABLES
    \* buildCondition applied to one predicate map
    pred, condRes,
    \* createTable's companion synthesis, the persisted document, its reload
    schemaReq, schemaStage, created, persisted, reloaded,
    \* _put applied to one request against one cached schema
    putReq, putSchema, putRes,
    \* one DB instance: the database behind the driver, this.schemaCache[keyspace],
    \* and the operations called on it with the driver calls each has made
    db, schemaCache, operations,
    \* whether the engine running db.js throws on line 508's assignment
    strictPrimitives,
    \* keyspaceName applied to one (reverseDomain, table) pair, and to a second one
    nameReq, nameRes, otherReq, otherRes

condVars == <<pred, condRes>>
schemaVars == <<schemaReq, schemaStage, created, persisted, reloaded>>
putVars == <<putReq, putSchema, putRes>>
sysVars == <<db, schemaCache, operations, strictPrimitives>>
nameVars == <<nameReq, nameRes, otherReq, otherRes>>
vars == <<pred, condRes, schemaReq, schemaStage, created, persisted, reloaded,
          putReq, putSchema, putRes, db, schemaCache, operations, strictPrimitives,
          nameReq, nameRes, otherReq, otherRes>>

----------------------------------------------------------------------------
(* Bounds *)

MaxPredKeys == 2

MaxIndexes == 2

MaxOps == 3

MaxRun == 50

MaxNameLen == 2

----------------------------------------------------------------------------
(* JavaScript objects and values *)

Has(o, k) == \E i \in 1..Len(o) : o[i][1] = k

Get(o, k) == o[CHOOSE i \in 1..Len(o) : o[i][1] = k][2]

\* o[k] = v: an existing key keeps its place, a new key goes last
Set(o, k, v) ==
    IF Has(o, k)
    THEN [i \in 1..Len(o) |-> IF o[i][1] = k THEN <<k, v>> ELSE o[i]]
    ELSE Append(o, <<k, v>>)

Keys(o) == [i \in 1..Len(o) |-> o[i][1]]

Range(s) == {s[i] : i \in 1..Len(s)}

\* Array.prototype.indexOf(x) !== -1
Contains(s, x) == \E i \in 1..Len(s) : s[i] = x

Str(s) == [t |-> "string", v |-> s, ops |-> <<>>]
Num(n) == [t |-> "number", v |-> n, ops |-> <<>>]
Bool(b) == [t |-> "boolean", v |-> b, ops |-> <<>>]
Obj(ops) == [t |-> "object", v |-> "", ops |-> ops]
Undefined == [t |-> "undefined", v |-> "", ops |-> <<>>]

\* !x on a request value
Falsy(x) ==
    \/ x.t = "undefined"
    \/ x.t = "string" /\ x.v = ""
    \/ x.t = "number" /\ x.v = "0"
    \/ x.t = "boolean" /\ x.v = "false"

\* String.prototype.toLowerCase on the operator names the model uses
toLowerCase(s) ==
    CASE s = "EQ" -> "eq"
      [] s = "Lt" -> "lt"
      [] s = "BETWEEN" -> "between"
      [] s = "ASC" -> "asc"
      [] s = "DESC" -> "desc"
      [] OTHER -> s

RECURSIVE Concat(_)
Concat(toks) == IF toks = <<>> THEN "" ELSE Head(toks) \o Concat(Tail(toks))

RECURSIVE Flatten(_)
Flatten(ss) == IF ss = <<>> THEN <<>> ELSE Head(ss) \o Flatten(Tail(ss))

\* Array.prototype.join on fragment lists: sep between consecutive entries
RECURSIVE Join(_, _)
Join(ss, sep) ==
    IF ss = <<>> THEN <<>>
    ELSE IF Len(ss) = 1 THEN ss[1]
    ELSE ss[1] \o <<sep>> \o Join(Tail(ss), sep)

\* the fragments that hold one '?' each
Placeholders ==
    {" = ?", " < ?", " > ?", " <= ?", " >= ?", " != ?", " >= ? AND ", "?", " = ?,", " = ? "}

CountPlaceholders(toks) == Cardinality({i \in 1..Len(toks) : toks[i] \in Placeholders})

----------------------------------------------------------------------------
(* cassID: every name of the model matches /^[a-zA-Z0-9_]+$/, the branch   *)
(* that only wraps the name in double quotes.                              *)

cassID(name) == "\"" \o name \o "\""

----------------------------------------------------------------------------
(* buildCondition *)

Threw(msg) == [threw |-> TRUE, error |-> msg, query |-> <<>>, params |-> <<>>]

\* the switch on predOp.toLowerCase(): the fragment(s) appended after the column
OpFragment(predKey, predOp) ==
    CASE toLowerCase(predOp) = "eq" -> <<" = ?">>
      [] toLowerCase(predOp) = "lt" -> <<" < ?">>
      [] toLowerCase(predOp) = "gt" -> <<" > ?">>
      [] toLowerCase(predOp) = "le" -> <<" <= ?">>
      [] toLowerCase(predOp) = "ge" -> <<" >= ?">>
      [] toLowerCase(predOp) = "ne" -> <<" != ?">>
      [] toLowerCase(predOp) = "between" -> <<" >= ? AND ", cassID(predKey), " <= ?">>
      [] OTHER -> <<>>

SupportedOps == {"eq", "lt", "gt", "le", "ge", "ne", "between"}

\* the params pushed for one operator: predArg, or predArg[0] and predArg[1]
OpParams(predOp, predArg) ==
    IF toLowerCase(predOp) = "between" THEN <<predArg[1], predArg[2]>> ELSE <<predArg[1]>>

RECURSIVE CondLoop(_, _, _, _)
CondLoop(p, i, conjunctions, params) ==
    IF i > Len(p)
    THEN [threw |-> FALSE, error |-> "",
          query |-> Join(conjunctions, " AND "), params |-> params]
    ELSE LET predKey == p[i][1]
             predObj == p[i][2]
         IN  IF predObj.t = "undefined"
             THEN Threw("TypeError")
             ELSE IF predObj.t = "string"
             THEN CondLoop(p, i + 1, Append(conjunctions, <<cassID(predKey), " = ?">>),
                           Append(params, predObj))
             ELSE IF predObj.t = "object"
             THEN IF Len(predObj.ops) = 1
                  THEN LET predOp == predObj.ops[1][1]
                           predArg == predObj.ops[1][2]
                       IN  IF toLowerCase(predOp) \in SupportedOps
                           THEN CondLoop(p, i + 1,
                                    Append(conjunctions,
                                           <<cassID(predKey)>> \o OpFragment(predKey, predOp)),
                                    params \o OpParams(predOp, predArg))
                           ELSE Threw("Operator not supported")
                  ELSE Threw("Invalid predicate")
             ELSE CondLoop(p, i + 1, Append(conjunctions, <<cassID(predKey)>>), params)

buildCondition(p) == CondLoop(p, 1, <<>>, <<>>)

----------------------------------------------------------------------------
(* Predicate maps given to buildCondition *)

CondKeyNames == <<"key", "ts", "rev", "title">>

CondValues ==
    { Str("foo"), Num("1"), Bool("true"),
      Obj(<< <<"eq", <<Str("foo")>> >> >>),
      Obj(<< <<"EQ", <<Num("1")>> >> >>),
      Obj(<< <<"Lt", <<Num("2")>> >> >>),
      Obj(<< <<"ne", <<Str("bar")>> >> >>),
      Obj(<< <<"between", <<Num("1"), Num("2")>> >> >>),
      Obj(<< <<"like", <<Str("foo")>> >> >>),
      Obj(<< <<"gt", <<Num("1")>> >>, <<"lt", <<Num("2")>> >> >>),
      Obj(<<>>) }

Preds ==
    UNION { { [i \in 1..n |-> <<CondKeyNames[i], f[i]>>] : f \in [1..n -> CondValues] }
            : n \in 0..MaxPredKeys }

NoResult == [threw |-> FALSE, error |-> "pending", query |-> <<>>, params |-> <<>>]

Compile ==
    /\ condRes = NoResult
    /\ condRes' = buildCondition(pred)
    /\ UNCHANGED pred
    /\ UNCHANGED <<schemaVars, putVars, sysVars, nameVars>>

----------------------------------------------------------------------------
(* Schemas.  A schema request is [hasAttributes, attributes, hasIndex,     *)
(* index, hasSecondaryIndexes, secondaryIndexes]; an index descriptor is   *)
(* [hash, range, static, proj] with hash = "" for a descriptor without     *)
(* hash; a range is [t, a]: undefined, one name (a = <<name>>) or an       *)
(* array.  A missing attribute type is UndefT.                             *)

UndefT == "undefined"

AttrOf(attributes, a) == IF Has(attributes, a) THEN Get(attributes, a) ELSE UndefT

NoRange == [t |-> "undefined", a |-> <<>>]
OneRange(n) == [t |-> "string", a |-> <<n>>]
ArrRange(a) == [t |-> "array", a |-> a]

\* the logical types _createTable's switch accepts
ValidTypes ==
    { "blob", "set<blob>", "decimal", "set<decimal>", "double", "set<double>",
      "boolean", "set<boolean>", "varint", "set<varint>", "string", "set<string>",
      "timeuuid", "set<timeuuid>", "uuid", "set<uuid>", "timestamp", "set<timestamp>",
      "json", "set<json>" }

validateSchema(req) ==
    IF ~req.hasIndex \/ req.index.hash = ""
    THEN [threw |-> TRUE, rangeIndex |-> <<>>]
    ELSE [threw |-> FALSE,
          rangeIndex |-> IF req.index.range.t = "undefined" THEN <<>> ELSE req.index.range.a]

\* range.forEach(function(items){ _indexAttributes[items] = true; })
RECURSIVE MarkAll(_, _, _)
MarkAll(ia, range, i) ==
    IF i > Len(range) THEN ia ELSE MarkAll(Set(ia, range[i], "true"), range, i + 1)

\* rangeIndex.forEach: append the primary range columns the companion lacks
RECURSIVE AddPrimaryRange(_, _, _, _, _)
AddPrimaryRange(attributes, rangeIndex, i, range, ia) ==
    IF i > Len(rangeIndex) THEN [range |-> range, ia |-> ia]
    ELSE LET att == rangeIndex[i]
         IN  IF AttrOf(attributes, att) = UndefT /\ ~Contains(range, att)
             THEN AddPrimaryRange(attributes, rangeIndex, i + 1,
                                  Append(range, att), Set(ia, att, "true"))
             ELSE AddPrimaryRange(attributes, rangeIndex, i + 1, range, ia)

\* range.forEach: copy the range columns' types, note a timeuuid one
RECURSIVE CopyRangeTypes(_, _, _, _, _)
CopyRangeTypes(reqAttributes, range, i, attributes, hasTid) ==
    IF i > Len(range) THEN [attributes |-> attributes, hasTid |-> hasTid]
    ELSE LET att == range[i]
             attrs == IF AttrOf(attributes, att) = UndefT
                      THEN Set(attributes, att, AttrOf(reqAttributes, att))
                      ELSE attributes
         IN  CopyRangeTypes(reqAttributes, range, i + 1, attrs,
                            hasTid \/ AttrOf(attrs, att) = "timeuuid")

\* index.proj.forEach
RECURSIVE CopyProj(_, _, _, _)
CopyProj(reqAttributes, proj, i, attributes) ==
    IF i > Len(proj) THEN attributes
    ELSE CopyProj(reqAttributes, proj, i + 1,
                  IF AttrOf(attributes, proj[i]) = UndefT
                  THEN Set(attributes, proj[i], AttrOf(reqAttributes, proj[i]))
                  ELSE attributes)

NoIndexSchema == [name |-> "", attributes |-> <<>>, index |-> <<>>, _indexAttributes |-> <<>>]

\* the primary hash joins range when the companion lacks it (lines 184-187)
AddPrimaryHash(attributes, range, hash) ==
    IF AttrOf(attributes, hash) = UndefT /\ ~Contains(range, hash)
    THEN Append(range, hash)
    ELSE range

\* lines 210-234: the implicit _tid, the projections, index.range = range
GenFinish(req, indexName, index, r2, c3) ==
    LET attributes4 == IF c3.hasTid THEN c3.attributes
                       ELSE Set(c3.attributes, "_tid", "timeuuid")
        range4 == IF c3.hasTid THEN r2.range ELSE Append(r2.range, "_tid")
        ia4 == IF c3.hasTid THEN r2.ia ELSE Set(r2.ia, "_tid", "timeuuid")
        index5 == [index EXCEPT !.static = "__consistentUpTo", !.range = ArrRange(range4)]
    IN  [threw |-> FALSE,
         req |-> [req EXCEPT !.secondaryIndexes = Set(@, indexName, index5)],
         indexSchema |-> [name |-> indexName,
                          attributes |-> CopyProj(req.attributes, index.proj, 1, attributes4),
                          index |-> index5, _indexAttributes |-> ia4]]

\* lines 199-208
GenCopy(req, indexName, index, attributes1, r2) ==
    GenFinish(req, indexName, index, r2,
              CopyRangeTypes(req.attributes, r2.range, 1, attributes1, FALSE))

\* lines 161-197
GenKeys(req, indexName, index, rangeIndex, range0, attributes1) ==
    GenCopy(req, indexName, index, attributes1,
            AddPrimaryRange(attributes1, rangeIndex, 1,
                            AddPrimaryHash(attributes1, range0, req.index.hash),
                            MarkAll(<< <<index.hash, "true">> >>, range0, 1)))

\* lines 142-159
GenChecked(req, indexName, index, v) ==
    IF index.hash = "" \/ v.threw
    THEN [threw |-> TRUE, req |-> req, indexSchema |-> NoIndexSchema]
    ELSE IF ~req.hasAttributes
    THEN [threw |-> TRUE,
          req |-> [req EXCEPT !.secondaryIndexes =
                      Set(@, indexName, [index EXCEPT !.static = "__consistentUpTo"])],
          indexSchema |-> NoIndexSchema]
    ELSE GenKeys(req, indexName, index, v.rangeIndex,
                 IF index.range.t = "undefined" THEN <<>> ELSE index.range.a,
                 Set(<< <<"__consistentUpTo", "timeuuid">>, <<"__tombstone", "boolean">> >>,
                     index.hash, AttrOf(req.attributes, index.hash)))

\* Returns the companion schema and req as the call leaves it: the descriptor
\* req.secondaryIndexes[indexName] is updated in place (static, range).
generateIndexSchema(req, indexName) ==
    GenChecked(req, indexName, Get(req.secondaryIndexes, indexName), validateSchema(req))

----------------------------------------------------------------------------
(* _createTable: the statements it issues, in order, and req as it leaves  *)
(* it.  The clustering-order clause and the statement text are left out:   *)
(* a family is named by its table name.                                    *)

NoIndex == [hash |-> "", range |-> NoRange, static |-> "", proj |-> <<>>]

TypesOk(attributes) == \A i \in 1..Len(attributes) : attributes[i][2] \in ValidTypes

\* the recursive call this._createTable(keyspace, indexSchema, 'i_' + indexName):
\* indexSchema has attributes and index.hash and no secondaryIndexes
CompanionThrows(indexSchema) == ~TypesOk(indexSchema.attributes)

RECURSIVE CreateCompanions(_, _, _, _, _)

\* one turn of the loop at lines 757-760, g the result of generateIndexSchema
CompanionStep(names, i, issued, companions, g) ==
    IF g.threw \/ CompanionThrows(g.indexSchema)
    THEN [threw |-> TRUE, issued |-> issued, req |-> g.req, companions |-> companions]
    ELSE CreateCompanions(g.req, names, i + 1, Append(issued, "i_" \o names[i]),
                          Set(companions, names[i], g.indexSchema))

CreateCompanions(req, names, i, issued, companions) ==
    IF i > Len(names)
    THEN [threw |-> FALSE, issued |-> issued, req |-> req, companions |-> companions]
    ELSE CompanionStep(names, i, issued, companions, generateIndexSchema(req, names[i]))

\* line 761: the table's own statement follows its companions'
IssueOwn(c, tableName) == IF c.threw THEN c ELSE [c EXCEPT !.issued = Append(@, tableName)]

_createTable(req, tableName) ==
    IF \/ ~req.hasAttributes
       \/ ~TypesOk(req.attributes)
       \/ validateSchema(req).threw
    THEN [threw |-> TRUE, issued |-> <<>>, req |-> req, companions |-> <<>>]
    ELSE IF req.hasSecondaryIndexes
    THEN IssueOwn(CreateCompanions(req, Keys(req.secondaryIndexes), 1, <<>>, <<>>), tableName)
    ELSE [threw |-> FALSE, issued |-> <<tableName>>, req |-> req, companions |-> <<>>]

infoSchema ==
    [table |-> "meta", hasAttributes |-> TRUE,
     attributes |-> << <<"key", "string">>, <<"value", "json">> >>,
     hasIndex |-> TRUE, index |-> [NoIndex EXCEPT !.hash = "key"],
     hasSecondaryIndexes |-> FALSE, secondaryIndexes |-> <<>>]

\* Promise.all([_createTable(.., req, 'data'), _createTable(.., infoSchema, 'meta')]):
\* the array's second entry is evaluated only when the first did not throw
BothFamilies(d, m) ==
    IF d.threw THEN d ELSE [d EXCEPT !.threw = m.threw, !.issued = @ \o m.issued]

CreateFamilies(req) == BothFamilies(_createTable(req, "data"), _createTable(infoSchema, "meta"))

----------------------------------------------------------------------------
(* The schema document: JSON.stringify keeps every property whose value is *)
(* defined, in order, and JSON.parse gives them back.                      *)

RECURSIVE DropUndefined(_)
DropUndefined(attributes) ==
    IF attributes = <<>> THEN <<>>
    ELSE IF Head(attributes)[2] = UndefT THEN DropUndefined(Tail(attributes))
    ELSE <<Head(attributes)>> \o DropUndefined(Tail(attributes))

JSONStringify(req) == [json |-> [req EXCEPT !.attributes = DropUndefined(@)]]

JSONParse(doc) == doc.json

----------------------------------------------------------------------------
(* _getSchema's continuation: the enriched schema of a parsed document     *)

RECURSIVE EnrichLoop(_, _, _, _)

\* one turn of the loop at lines 393-396, g the result of generateIndexSchema
EnrichStep(names, i, indexSchema, g) ==
    IF g.threw
    THEN [threw |-> TRUE, schema |-> g.req, indexSchema |-> indexSchema]
    ELSE EnrichLoop(g.req, names, i + 1, Set(indexSchema, names[i], g.indexSchema))

EnrichLoop(schema, names, i, indexSchema) ==
    IF i > Len(names)
    THEN [threw |-> FALSE, schema |-> schema, indexSchema |-> indexSchema]
    ELSE EnrichStep(names, i, indexSchema, generateIndexSchema(schema, names[i]))

\* lines 399-408: the primary table's _indexAttributes
PrimaryIndexAttributes(schema) ==
    MarkAll(<< <<schema.index.hash, "true">> >>,
            IF schema.index.range.t = "undefined" THEN <<>> ELSE schema.index.range.a, 1)

EnrichPrimary(schema, e) ==
    IF e.threw \/ ~schema.hasIndex
    THEN [threw |-> TRUE, def |-> e.schema, indexSchema |-> e.indexSchema,
          _indexAttributes |-> <<>>]
    ELSE [threw |-> FALSE, def |-> e.schema, indexSchema |-> e.indexSchema,
          _indexAttributes |-> PrimaryIndexAttributes(e.schema)]

Enrich(schema) ==
    EnrichPrimary(schema,
                  IF schema.hasSecondaryIndexes
                  THEN EnrichLoop(schema, Keys(schema.secondaryIndexes), 1, <<>>)
                  ELSE [threw |-> FALSE, schema |-> schema, indexSchema |-> <<>>])

----------------------------------------------------------------------------
(* buildPutQuery.  schema is the table's schema as _put hands it over:     *)
(* [found, attributes, hasRestbase, _restbase, _indexAttributes,           *)
(* secondaryIndexes].  req is [attributes, if]; req.if is [t, s, p]: t is  *)
(* "undefined", "string" (s the text) or "object" (p the predicate map).   *)
(* The result carries, beside query and params, what the text says: verb,  *)
(* table, the key columns used and the columns and placeholders listed.    *)

NoIf == [t |-> "undefined", s |-> "", p |-> <<>>]
IfString(s) == [t |-> "string", s |-> s, p |-> <<>>]
IfPred(p) == [t |-> "object", s |-> "", p |-> p]

\* req.if.trim().split(/\s+/).join(' ').toLowerCase() on the texts the model uses
NormaliseIf(s) ==
    CASE s = " Not  Exists " -> "not exists"
      [] s = "NOT EXISTS" -> "not exists"
      [] OTHER -> s

\* tidFromDate(new Date()): a v1 uuid string
tidFromDate == Str("tid-now")

\* JSON.stringify(val) of an object value: a string
JSONOf(val) == [t |-> "string", v |-> "json", ops |-> val.ops]

NoStatement ==
    [threw |-> TRUE, error |-> "", query |-> <<>>, params |-> <<>>, verb |-> "",
     table |-> "", keyColumns |-> <<>>, columns |-> <<>>, placeholders |-> 0]

PutThrew(msg) == [NoStatement EXCEPT !.error = msg]

ReqAttr(attributes, k) == IF Has(attributes, k) THEN Get(attributes, k) ELSE Undefined

\* lines 282-290: the key values, by _indexAttributes' order
RECURSIVE IndexKVMap(_, _, _, _)
IndexKVMap(attributes, ia, i, indexKVMap) ==
    IF i > Len(ia) THEN [threw |-> FALSE, map |-> indexKVMap]
    ELSE LET key == ia[i][1]
         IN  IF key = "_tid"
             THEN IndexKVMap(attributes, ia, i + 1, Set(indexKVMap, key, tidFromDate))
             ELSE IF Falsy(ReqAttr(attributes, key))
             THEN [threw |-> TRUE, map |-> indexKVMap]
             ELSE IndexKVMap(attributes, ia, i + 1,
                             Set(indexKVMap, key, ReqAttr(attributes, key)))

\* lines 292-304: the non-key columns and values, one placeholder per column
RECURSIVE SplitAttributes(_, _, _, _, _)
SplitAttributes(attributes, schemaAttributes, ia, i, acc) ==
    IF i > Len(attributes) THEN acc
    ELSE LET key == attributes[i][1]
             val == attributes[i][2]
         IN  IF val.t # "undefined" /\ AttrOf(schemaAttributes, key) # UndefT
             THEN SplitAttributes(attributes, schemaAttributes, ia, i + 1,
                    IF ~Has(ia, key)
                    THEN [keys |-> Append(acc.keys, key),
                          params |-> Append(acc.params,
                                            IF val.t = "object" THEN JSONOf(val) ELSE val),
                          placeholders |-> acc.placeholders + 1]
                    ELSE [acc EXCEPT !.placeholders = @ + 1])
             ELSE SplitAttributes(attributes, schemaAttributes, ia, i + 1, acc)

QuotedList(names) == Join([i \in 1..Len(names) |-> <<cassID(names[i])>>], ",")

\* lines 321-335: insert or update
PutVerb(keyspace, table, ia, split, keyCond, ifText) ==
    IF split.keys = <<>> \/ ifText = "not exists"
    THEN [NoStatement EXCEPT
            !.threw = FALSE, !.verb = "insert", !.table = table,
            !.keyColumns = Keys(ia),
            !.columns = Keys(ia) \o split.keys,
            !.placeholders = split.placeholders,
            !.query = <<"insert into ", cassID(keyspace), ".", cassID(table), " (">>
                      \o QuotedList(Keys(ia) \o split.keys) \o <<") values (">>
                      \o Join([i \in 1..split.placeholders |-> <<"?">>], ",") \o <<")">>,
            !.params = keyCond.params \o split.params]
    ELSE [NoStatement EXCEPT
            !.threw = FALSE, !.verb = "update", !.table = table,
            !.keyColumns = Keys(ia),
            !.columns = split.keys,
            !.query = <<"update ", cassID(keyspace), ".", cassID(table), " set ">>
                      \o Join([i \in 1..Len(split.keys) |-> <<cassID(split.keys[i])>>], " = ?,")
                      \o <<" = ? ", " where ">> \o keyCond.query,
            !.params = split.params \o keyCond.params]

\* lines 337-349: the condition
PutCondition(stmt, if, ifText, ifCond) ==
    IF if.t = "undefined" \/ (if.t = "string" /\ ifText = "")
    THEN stmt
    ELSE IF ifText = "not exists"
    THEN [stmt EXCEPT !.query = @ \o <<" if not exists ">>]
    ELSE IF ifCond.threw
    THEN PutThrew(ifCond.error)
    ELSE [stmt EXCEPT !.query = @ \o <<" if ">> \o ifCond.query,
                      !.params = @ \o ifCond.params]

\* lines 315-349, kv the result of the loop at lines 282-290
PutFromKeys(req, keyspace, table, schema, ia, kv, keyCond, ifText) ==
    IF kv.threw THEN PutThrew("Index attribute missing")
    ELSE IF keyCond.threw THEN PutThrew(keyCond.error)
    ELSE PutCondition(
            PutVerb(keyspace, table, ia,
                    SplitAttributes(req.attributes, schema.attributes, ia, 1,
                                    [keys |-> <<>>, params |-> <<>>, placeholders |-> 0]),
                    keyCond, ifText),
            req.if, ifText, buildCondition(req.if.p))

PutWithKeys(req, keyspace, table, schema, ia, kv) ==
    PutFromKeys(req, keyspace, table, schema, ia, kv, buildCondition(kv.map),
                IF req.if.t = "string" THEN NormaliseIf(req.if.s) ELSE "")

buildPutQuery(req, keyspace, table, schema) ==
    IF table \in {"meta", "data"}
    THEN IF ~schema.found \/ ~schema.hasRestbase
         THEN PutThrew("TypeError")
         ELSE PutWithKeys(req, keyspace, table, schema, schema._restbase,
                          IndexKVMap(req.attributes, schema._restbase, 1, <<>>))
    ELSE IF ~schema.found
         THEN PutThrew("TypeError")
         ELSE PutWithKeys(req, keyspace, "i_" \o table, schema, schema._indexAttributes,
                          IndexKVMap(req.attributes, schema._indexAttributes, 1, <<>>))

----------------------------------------------------------------------------
(* _put and executeCql.  A cache entry is [state, e]: "unset" (undefined), *)
(* "null", or "schema" with e the enriched schema.                         *)

Keyspace == "org_wikipedia_T_pages"

NotFound ==
    [found |-> FALSE, attributes |-> <<>>, hasRestbase |-> FALSE, _restbase |-> <<>>,
     _indexAttributes |-> <<>>, secondaryIndexes |-> <<>>]

\* DB.prototype.infoSchema
InfoView ==
    [NotFound EXCEPT !.found = TRUE, !.attributes = << <<"key", "string">>, <<"value", "json">> >>,
                     !.hasRestbase = TRUE, !._restbase = << <<"key", "true">> >>]

\* this.schemaCache[keyspace], a truthy entry
DataView(e) ==
    [NotFound EXCEPT !.found = TRUE, !.attributes = e.def.attributes,
                     !.hasRestbase = TRUE, !._restbase = e._indexAttributes,
                     !.secondaryIndexes = IF e.def.hasSecondaryIndexes
                                          THEN Keys(e.def.secondaryIndexes) ELSE <<>>]

\* this.schemaCache[keyspace]._restbase.indexSchema[item]
CompanionView(e, item) ==
    IF Has(e.indexSchema, item)
    THEN [NotFound EXCEPT !.found = TRUE, !.attributes = Get(e.indexSchema, item).attributes,
                          !._indexAttributes = Get(e.indexSchema, item)._indexAttributes]
    ELSE NotFound

\* lines 548-553
PutSchema(cache, table) ==
    IF table = "meta" THEN InfoView
    ELSE IF table = "data" /\ cache.state = "schema" THEN DataView(cache.e)
    ELSE NotFound

NoDispatch == [threw |-> TRUE, error |-> "", calls |-> <<>>]

\* a variant without batching: only the first statement is sent
executeFirst(batch) ==
    [threw |-> FALSE, error |-> "",
     calls |-> << [method |-> "execute", statements |-> <<batch[1]>>] >>]

\* executeCql: one execute_p of the only statement, or one batch_p of them all
executeCql(batch) ==
    IF Len(batch) = 1
    THEN [threw |-> FALSE, error |-> "",
          calls |-> << [method |-> "execute", statements |-> <<batch[1]>>] >>]
    ELSE [threw |-> FALSE, error |-> "",
          calls |-> << [method |-> "batch", statements |-> batch] >>]

RECURSIVE PutCompanions(_, _, _, _, _)

\* a variant that sends what was compiled so far when a companion fails
PutCompanionSkip(req, e, items, i, batch, schema, queryResult) ==
    IF ~schema.found \/ queryResult.threw THEN executeCql(batch)
    ELSE PutCompanions(req, e, items, i + 1, Append(batch, queryResult))

\* lines 565-570, queryResult the statement compiled for the companion
PutCompanionStep(req, e, items, i, batch, schema, queryResult) ==
    IF ~schema.found THEN [NoDispatch EXCEPT !.error = "Table not found!"]
    ELSE IF queryResult.threw THEN [NoDispatch EXCEPT !.error = queryResult.error]
    ELSE PutCompanions(req, e, items, i + 1, Append(batch, queryResult))

PutCompanions(req, e, items, i, batch) ==
    IF i > Len(items) THEN executeCql(batch)
    ELSE PutCompanionStep(req, e, items, i, batch, CompanionView(e, items[i]),
                          buildPutQuery(req, Keyspace, items[i], CompanionView(e, items[i])))

\* lines 559-575, queryResult the primary statement
PutPrimary(req, cache, schema, queryResult) ==
    IF queryResult.threw THEN [NoDispatch EXCEPT !.error = queryResult.error]
    ELSE IF cache.state = "schema"
    THEN PutCompanions(req, cache.e, schema.secondaryIndexes, 1, <<queryResult>>)
    ELSE executeCql(<<queryResult>>)

\* Returns the driver calls _put makes, or that it threw.
_put(cache, req, table) ==
    IF ~PutSchema(cache, table).found
    THEN [NoDispatch EXCEPT !.error = "Table not found!"]
    ELSE PutPrimary(req, cache, PutSchema(cache, table),
                    buildPutQuery(req, Keyspace, table, PutSchema(cache, table)))

----------------------------------------------------------------------------
(* Schema requests given to createTable *)

Attrs ==
    << <<"key", "string">>, <<"rev", "varint">>, <<"title", "string">>,
       <<"tid", "timeuuid">>, <<"body", "json">> >>

IndexNames == <<"by_title", "by_rev", "by_user", "by_tid">>

PrimaryRanges == {NoRange, OneRange("rev"), ArrRange(<<"rev">>), ArrRange(<<"rev", "tid">>)}

Descriptors ==
    { [hash |-> h, range |-> r, static |-> "", proj |-> p] :
        h \in {"title", "key"},
        r \in {NoRange, OneRange("rev"), ArrRange(<<"tid">>), ArrRange(<<"rev", "tid">>)},
        p \in {<<>>, <<"body">>} }

MkSchema(range, secondaryIndexes) ==
    [table |-> "pages", hasAttributes |-> TRUE, attributes |-> Attrs,
     hasIndex |-> TRUE, index |-> [NoIndex EXCEPT !.hash = "key", !.range = range],
     hasSecondaryIndexes |-> secondaryIndexes # <<>>,
     secondaryIndexes |-> secondaryIndexes]

SecondaryIndexMaps ==
    UNION { { [i \in 1..n |-> <<IndexNames[i], f[i]>>] : f \in [1..n -> Descriptors] }
            : n \in 0..MaxIndexes }

ValidSchemas == { MkSchema(r, si) : r \in PrimaryRanges, si \in SecondaryIndexMaps }

ByTitle == [NoIndex EXCEPT !.hash = "title"]

\* one request for each way _createTable and generateIndexSchema reject a schema
InvalidSchemas ==
    LET ok == MkSchema(OneRange("rev"), << <<"by_title", ByTitle>> >>)
    IN  { [ok EXCEPT !.hasIndex = FALSE, !.index = NoIndex],
          [ok EXCEPT !.index = NoIndex],
          [ok EXCEPT !.hasAttributes = FALSE, !.attributes = <<>>],
          [ok EXCEPT !.attributes = Set(@, "rev", "int")],
          [ok EXCEPT !.secondaryIndexes = << <<"by_title", NoIndex>> >>],
          [ok EXCEPT !.secondaryIndexes = << <<"by_title", ByTitle>>, <<"by_rev", NoIndex>> >>],
          [ok EXCEPT !.secondaryIndexes =
              << <<"by_title", [NoIndex EXCEPT !.hash = "author"]>> >>] }

EmptyReq ==
    [table |-> "", hasAttributes |-> FALSE, attributes |-> <<>>, hasIndex |-> FALSE,
     index |-> NoIndex, hasSecondaryIndexes |-> FALSE, secondaryIndexes |-> <<>>]

NoCreated == [threw |-> FALSE, issued |-> <<>>, req |-> EmptyReq, companions |-> <<>>]

NoEnriched ==
    [threw |-> FALSE, def |-> EmptyReq, indexSchema |-> <<>>, _indexAttributes |-> <<>>]

NoDoc == [json |-> EmptyReq]

----------------------------------------------------------------------------
(* One schema through createTable's synthesis, the put of the document     *)
(* into meta, and _getSchema's reload.                                     *)

\* createTable's second step: _createTable(keyspace, req, 'data', ..) and meta
SynthCreate ==
    /\ schemaStage = "new"
    /\ created' = CreateFamilies(schemaReq)
    /\ schemaStage' = IF created'.threw THEN "rejected" ELSE "created"
    /\ UNCHANGED <<schemaReq, persisted, reloaded>>
    /\ UNCHANGED <<condVars, putVars, sysVars, nameVars>>

\* createTable's third step: value: JSON.stringify(req), req as step two left it
SynthPersist ==
    /\ schemaStage = "created"
    /\ persisted' = JSONStringify(created.req)
    /\ schemaStage' = "persisted"
    /\ UNCHANGED <<schemaReq, created, reloaded>>
    /\ UNCHANGED <<condVars, putVars, sysVars, nameVars>>

\* _getSchema on the row just written
SynthReload ==
    /\ schemaStage = "persisted"
    /\ reloaded' = Enrich(JSONParse(persisted))
    /\ schemaStage' = "reloaded"
    /\ UNCHANGED <<schemaReq, created, persisted>>
    /\ UNCHANGED <<condVars, putVars, sysVars, nameVars>>

----------------------------------------------------------------------------
(* Put requests and the cached schemas they meet *)

\* what _getSchema caches once createTable(req) has persisted its document
CachedSchemaOf(req) == Enrich(JSONParse(JSONStringify(CreateFamilies(req).req)))

IndexMaps(descriptors) ==
    UNION { { [i \in 1..n |-> <<IndexNames[i], f[i]>>] : f \in [1..n -> descriptors] }
            : n \in 0..MaxIndexes }

PutTables ==
    { MkSchema(r, si) :
        r \in {NoRange, OneRange("rev")},
        si \in IndexMaps({ByTitle, [ByTitle EXCEPT !.range = ArrRange(<<"tid">>)]}) }

NullCache == [state |-> "null", e |-> NoEnriched]
UnsetCache == [state |-> "unset", e |-> NoEnriched]
CacheOf(e) == [state |-> "schema", e |-> e]

PutCaches == {CacheOf(CachedSchemaOf(t)) : t \in PutTables} \cup {NullCache}

Defined(kv) == kv[2].t # "undefined"

Reverse(s) == [i \in 1..Len(s) |-> s[Len(s) + 1 - i]]

\* the attributes a request supplies, in either order
PutAttributes ==
    LET maps == { SelectSeq(<< <<"key", k>>, <<"rev", r>>, <<"title", t>>,
                               <<"tid", d>>, <<"body", b>>, <<"comment", c>> >>, Defined) :
                    k \in {Undefined, Str("a")},
                    r \in {Undefined, Num("1"), Str("r1"), Num("0")},
                    t \in {Undefined, Str("T")},
                    d \in {Undefined, Str("t1")},
                    b \in {Undefined, Str("x"), Obj(<< <<"a", <<Str("b")>> >> >>)},
                    c \in {Undefined, Str("c")} }
    IN  maps \cup {Reverse(m) : m \in maps}

PutIfs ==
    { NoIf, IfString("not exists"), IfString(" Not  Exists "),
      IfPred(<< <<"body", Str("old")>> >>),
      IfPred(<< <<"rev", Obj(<< <<"gt", <<Num("1")>> >> >>)>> >>),
      IfPred(<< <<"body", Obj(<< <<"like", <<Str("o")>> >> >>)>> >>) }

PutRequests == { [attributes |-> a, if |-> c] : a \in PutAttributes, c \in PutIfs }

NoPutReq == [attributes |-> <<>>, if |-> NoIf]

NoPutRes == [NoDispatch EXCEPT !.error = "pending"]

----------------------------------------------------------------------------
(* The name encoder.  A string is the sequence of its characters.  The     *)
(* sha1 of hashKey is not computed: its base64 text without padding has 27 *)
(* characters of [A-Za-z0-9_], here 27 times "H".                          *)

Min(a, b) == IF a < b THEN a ELSE b

Max(a, b) == IF a > b THEN a ELSE b

\* a variant that does not cut the string
Untruncated(str, length) == str

\* String.prototype.substr(0, length): length is truncated to an integer by
\* the caller's \div, and a length below 0 gives ''
substr(str, length) == SubSeq(str, 1, Min(Len(str), Max(0, length)))

hashKey(key) == [i \in 1..27 |-> "H"]

\* [a-zA-Z0-9_] on the characters the strings are built from
NameChars == {"a", "b", "T", "H", "_"}

RECURSIVE getValidPrefix(_)
getValidPrefix(key) ==
    IF key = <<>> \/ Head(key) \notin NameChars THEN <<>>
    ELSE <<Head(key)>> \o getValidPrefix(Tail(key))

\* /^[a-zA-Z0-9_]+$/.test(key)
IsValidKey(key) == key # <<>> /\ \A i \in 1..Len(key) : key[i] \in NameChars

\* key.replace(/_/g, '__').replace(/\./g, '_')
RECURSIVE Replaced(_)
Replaced(key) ==
    IF key = <<>> THEN <<>>
    ELSE (IF Head(key) = "_" THEN <<"_", "_">>
          ELSE IF Head(key) = "." THEN <<"_">>
          ELSE <<Head(key)>>) \o Replaced(Tail(key))

\* the three branches of makeValidKey, key the replaced string
ValidKeyOf(origKey, key, length, validPrefix) ==
    IF ~IsValidKey(key)
    THEN validPrefix \o substr(hashKey(origKey), length - Len(validPrefix))
    ELSE IF Len(key) > length
    THEN substr(key, (length * 2) \div 3) \o substr(hashKey(origKey), length \div 3)
    ELSE key

makeValidKey(key, length) ==
    ValidKeyOf(key, Replaced(key), length,
               substr(getValidPrefix(Replaced(key)), (length * 2) \div 3))

\* whether makeValidKey(key, length) takes a branch that hashes
Hashes(key, length) == ~IsValidKey(Replaced(key)) \/ Len(Replaced(key)) > length

\* keyspaceName with the prefix already made; the record keeps both parts
\* and the length each was made for
NameFromPrefix(reverseDomain, key, prefixLength, prefix) ==
    [prefixLength |-> prefixLength, prefix |-> prefix,
     keyLength |-> 48 - Len(prefix) - 3,
     key |-> makeValidKey(key, 48 - Len(prefix) - 3),
     name |-> prefix \o <<"_", "T", "_">> \o makeValidKey(key, 48 - Len(prefix) - 3),
     hashed |-> Hashes(reverseDomain, prefixLength) \/ Hashes(key, 48 - Len(prefix) - 3)]

NameWithLength(reverseDomain, key, prefixLength) ==
    NameFromPrefix(reverseDomain, key, prefixLength, makeValidKey(reverseDomain, prefixLength))

keyspaceName(reverseDomain, key) ==
    NameWithLength(reverseDomain, key, Max(26, 48 - Len(key) - 3))

----------------------------------------------------------------------------
(* Names given to keyspaceName *)

Rep(c, n) == [i \in 1..n |-> c]

\* a run of one character, then nothing, a dot or a character outside the set
LongNames ==
    { Rep(c, n) \o mid : c \in {"a", "_"}, n \in 0..MaxRun, mid \in {<<>>, <<".">>, <<"-">>} }

\* every string of letters, '.' and '_' up to MaxNameLen characters
ShortNames == UNION { [1..n -> {"a", "T", ".", "_"}] : n \in 1..MaxNameLen }

NamePair(reverseDomain, table) == [reverseDomain |-> reverseDomain, table |-> table]

NoName == NamePair(<<>>, <<>>)

NoNameRes ==
    [prefixLength |-> 0, prefix |-> <<>>, keyLength |-> 0, key |-> <<>>, name |-> <<>>,
     hashed |-> FALSE]

NameIdle == nameReq = NoName /\ nameRes = NoNameRes /\ otherReq = NoName /\ otherRes = NoNameRes

CondIdle == pred = <<>> /\ condRes = NoResult

SchemaIdle ==
    /\ schemaReq = EmptyReq /\ schemaStage = "idle" /\ created = NoCreated
    /\ persisted = NoDoc /\ reloaded = NoEnriched

PutIdle == putReq = NoPutReq /\ putSchema = UnsetCache /\ putRes = NoPutRes

----------------------------------------------------------------------------
(* The DB instance.  An operation is [kind, pc, schema, request,           *)
(* attributes, io, seen, persisted]: schema is createTable's req, request  *)
(* put's req, attributes the predicate of get and delete; io lists the     *)
(* driver calls the operation has made, in order; seen is the cache entry's*)
(* state when the operation was called and persisted whether the schema    *)
(* document was in meta then.  A driver call is "sent", then executed by   *)
(* the database ("ok" or "err"), then settled: its promise's continuation  *)
(* has run ("ok_d", "err_d").  The last call of a chain has no             *)
(* continuation but the operation's result and settles as it is executed.  *)
(*                                                                         *)
(* _get's then runs, under "use strict", row.columns = undefined with row  *)
(* a string, the index of a row.  ECMAScript makes that assignment to a    *)
(* primitive's property a TypeError in strict code; engines older than the *)
(* rule's enforcement skip it.  strictPrimitives fixes which engine runs   *)
(* the instance: with it, a _get whose result has a row rejects.           *)

Ops == 1..MaxOps

NoAttributes == [has |-> FALSE, p |-> <<>>]

NoOp ==
    [kind |-> "none", pc |-> "idle", schema |-> EmptyReq, request |-> NoPutReq,
     attributes |-> NoAttributes, io |-> <<>>, seen |-> "unset", persisted |-> FALSE,
     error |-> ""]

Call(stmt, target) ==
    [stmt |-> stmt, target |-> target, method |-> "execute", statements |-> <<target>>,
     state |-> "sent", rows |-> <<>>]

EmptyDb == [keyspace |-> FALSE, families |-> {}, rows |-> <<>>]

SysIdle ==
    /\ db = EmptyDb /\ schemaCache = UnsetCache /\ operations = [i \in Ops |-> NoOp]
    /\ strictPrimitives = FALSE

\* the requests of the operations on the DB instance
SysSchemas ==
    LET ok == MkSchema(OneRange("rev"), << <<"by_title", ByTitle>> >>)
    IN  { ok,
          [ok EXCEPT !.table = ""],
          [ok EXCEPT !.index = NoIndex],
          [ok EXCEPT !.attributes = Set(@, "rev", "int")],
          [ok EXCEPT !.secondaryIndexes = << <<"by_title", ByTitle>>, <<"by_rev", NoIndex>> >>] }

UnknownOperator == Obj(<< <<"like", <<Str("a")>> >> >>)

TwoOperators == Obj(<< <<"gt", <<Str("a")>> >>, <<"lt", <<Str("b")>> >> >>)

SysPuts ==
    { [attributes |-> << <<"key", Str("a")>>, <<"rev", Str("r1")>>, <<"title", Str("T")>>,
                         <<"body", Str("x")>> >>, if |-> c] :
        c \in {NoIf, IfPred(<< <<"body", TwoOperators>> >>)} }

GetPredicates ==
    { [has |-> TRUE, p |-> << <<"key", Str("a")>> >>],
      [has |-> TRUE, p |-> << <<"key", UnknownOperator>> >>] }

DeletePredicates ==
    { [has |-> TRUE, p |-> << <<"key", Str("a")>> >>],
      [has |-> TRUE, p |-> << <<"key", Str("a")>>, <<"rev", TwoOperators>> >>] }

\* createTable's put of the document: {attributes: {key: 'schema', value: JSON.stringify(req)}}
MetaReq ==
    [attributes |-> << <<"key", Str("schema")>>, <<"value", Str("json")>> >>, if |-> NoIf]

\* !this.schemaCache[keyspace]
CacheMiss(cache) == cache.state # "schema"

Failed(op, error) == [op EXCEPT !.pc = "failed", !.error = error]

\* _get past the schema load: the predicate is compiled, then the select is sent
GetIssue(op) ==
    IF op.attributes.has /\ buildCondition(op.attributes.p).threw
    THEN Failed(op, buildCondition(op.attributes.p).error)
    ELSE [op EXCEPT !.io = Append(@, Call("select", "data")), !.pc = "data"]

TargetTables(statements) == [k \in 1..Len(statements) |-> statements[k].table]

\* _put past the schema load, w the outcome of _put
PutIssue(op, w) ==
    IF w.threw THEN Failed(op, w.error)
    ELSE [op EXCEPT !.io = Append(@, [Call("write", "data") EXCEPT
                                         !.method = w.calls[1].method,
                                         !.statements = TargetTables(w.calls[1].statements)]),
                    !.pc = "data"]

Started(i) ==
    /\ operations[i].kind = "none"
    /\ IF i = 1 THEN TRUE ELSE operations[i - 1].kind # "none"

NewOp(kind) ==
    [NoOp EXCEPT !.kind = kind, !.seen = schemaCache.state, !.persisted = db.rows # <<>>]

Others == <<condVars, schemaVars, putVars, strictPrimitives, nameVars>>

createTable ==
    \E i \in Ops, req \in SysSchemas :
        /\ Started(i)
        /\ operations' = [operations EXCEPT ![i] =
                     IF req.table = ""
                     THEN Failed([NewOp("createTable") EXCEPT !.schema = req],
                                 "Table name required.")
                     ELSE [NewOp("createTable") EXCEPT
                             !.schema = req, !.pc = "keyspace",
                             !.io = <<Call("create keyspace", "")>>]]
        /\ UNCHANGED <<db, schemaCache, Others>>

get ==
    \E i \in Ops, a \in GetPredicates :
        /\ Started(i)
        /\ operations' = [operations EXCEPT ![i] =
                     IF CacheMiss(schemaCache)
                     THEN [NewOp("get") EXCEPT !.attributes = a, !.pc = "schema",
                                               !.io = <<Call("read schema", "meta")>>]
                     ELSE GetIssue([NewOp("get") EXCEPT !.attributes = a])]
        /\ UNCHANGED <<db, schemaCache, Others>>

put ==
    \E i \in Ops, r \in SysPuts :
        /\ Started(i)
        /\ operations' = [operations EXCEPT ![i] =
                     IF CacheMiss(schemaCache)
                     THEN [NewOp("put") EXCEPT !.request = r, !.pc = "schema",
                                               !.io = <<Call("read schema", "meta")>>]
                     ELSE PutIssue([NewOp("put") EXCEPT !.request = r],
                                   _put(schemaCache, r, "data"))]
        /\ UNCHANGED <<db, schemaCache, Others>>

delete ==
    \E i \in Ops, a \in DeletePredicates :
        /\ Started(i)
        /\ operations' = [operations EXCEPT ![i] =
                     IF a.has /\ buildCondition(a.p).threw
                     THEN Failed([NewOp("delete") EXCEPT !.attributes = a],
                                 buildCondition(a.p).error)
                     ELSE [NewOp("delete") EXCEPT !.attributes = a, !.pc = "data",
                                                  !.io = <<Call("delete", "data")>>]]
        /\ UNCHANGED <<db, schemaCache, Others>>

dropTable ==
    \E i \in Ops :
        /\ Started(i)
        /\ operations' = [operations EXCEPT ![i] = [NewOp("dropTable") EXCEPT
                                        !.pc = "data", !.io = <<Call("drop keyspace", "")>>]]
        /\ UNCHANGED <<db, schemaCache, Others>>

----------------------------------------------------------------------------
(* The database executing a call *)

Terminal == {"put schema", "select", "write", "delete", "drop keyspace"}

\* whether the database accepts the statement
DbAccepts(d, c) ==
    CASE c.stmt = "create keyspace" -> ~d.keyspace
      [] c.stmt = "create table" -> d.keyspace /\ c.target \notin d.families
      [] c.stmt = "drop keyspace" -> d.keyspace
      [] c.stmt \in {"put schema", "read schema"} -> "meta" \in d.families
      [] OTHER -> Range(c.statements) \subseteq d.families

\* the database after the statement; doc is the document a put of the schema carries
DbAfter(d, c, doc) ==
    CASE c.stmt = "create keyspace" -> [d EXCEPT !.keyspace = TRUE]
      [] c.stmt = "create table" -> [d EXCEPT !.families = @ \cup {c.target}]
      [] c.stmt = "drop keyspace" -> EmptyDb
      [] c.stmt = "put schema" -> [d EXCEPT !.rows = <<doc>>]
      [] OTHER -> d

Executed(op, k, ok, rows) ==
    IF op.io[k].stmt \in Terminal
    THEN [op EXCEPT !.io[k].state = IF ok THEN "ok_d" ELSE "err_d",
                    !.pc = IF ok THEN "done" ELSE "failed",
                    !.error = IF ok THEN "" ELSE "driver error"]
    ELSE [op EXCEPT !.io[k].state = IF ok THEN "ok" ELSE "err", !.io[k].rows = rows]

DbExecute ==
    \E i \in Ops :
        \E k \in 1..Len(operations[i].io) :
            /\ operations[i].io[k].state = "sent"
            /\ IF DbAccepts(db, operations[i].io[k])
               THEN /\ db' = DbAfter(db, operations[i].io[k], JSONStringify(operations[i].schema))
                    /\ operations' = [operations EXCEPT ![i] =
                                 Executed(operations[i], k, TRUE,
                                          IF operations[i].io[k].stmt = "read schema"
                                          THEN db.rows ELSE <<>>)]
               ELSE /\ db' = db
                    /\ operations' = [operations EXCEPT ![i] = Executed(operations[i], k, FALSE, <<>>)]
            /\ UNCHANGED <<schemaCache, Others>>

\* a driver error: the call fails and leaves the database as it was
DbFail ==
    \E i \in Ops :
        \E k \in 1..Len(operations[i].io) :
            /\ operations[i].io[k].state = "sent"
            /\ operations' = [operations EXCEPT ![i] = Executed(operations[i], k, FALSE, <<>>)]
            /\ UNCHANGED <<db, schemaCache, Others>>

----------------------------------------------------------------------------
(* The continuations *)

CreateCalls(issued) == [k \in 1..Len(issued) |-> Call("create table", issued[k])]

\* createTable's first then: r the outcome of the two _createTable calls
AfterKeyspace(op, r) ==
    [op EXCEPT !.schema = r.req, !.io = @ \o CreateCalls(r.issued),
               !.pc = IF r.threw THEN "failed" ELSE "families",
               !.error = IF r.threw THEN "invalid schema" ELSE ""]

\* a racing variant: resolved once one create-table call has settled successfully
AnyCreated(io) ==
    \E k \in 1..Len(io) : io[k].stmt = "create table" /\ io[k].state = "ok_d"

\* Promise.all resolves: every create-table call has settled successfully
AllCreated(io) ==
    \A k \in 1..Len(io) : io[k].stmt = "create table" => io[k].state = "ok_d"

\* createTable's second then: _put(keyspace, {..}, consistency, 'meta')
AfterFamilies(op, w) ==
    IF ~AllCreated(op.io) THEN op
    ELSE IF w.threw THEN Failed(op, w.error)
    ELSE [op EXCEPT !.io = Append(@, Call("put schema", "meta")), !.pc = "persist"]

\* _getSchema's then: null without a row, else the enriched schema of the document
SchemaOfRows(rows) ==
    IF rows = <<>> THEN NullCache ELSE CacheOf(Enrich(JSONParse(rows[1])))

Settled(op, k) ==
    [op EXCEPT !.io[k].state = IF op.io[k].state = "ok" THEN "ok_d" ELSE "err_d"]

\* lines 507-509: the loop body runs once for each row of the result
RowLoopThrows(c, strict) == strict /\ c.state = "ok" /\ c.rows # <<>>

\* the continuation of call k of an operation still running
Continue(op, k, cache, strict) ==
    IF op.io[k].state = "err" THEN Failed(Settled(op, k), "driver error")
    ELSE IF op.io[k].stmt = "create keyspace"
    THEN AfterKeyspace(Settled(op, k), CreateFamilies(op.schema))
    ELSE IF op.io[k].stmt = "create table"
    THEN AfterFamilies(Settled(op, k), _put(cache, MetaReq, "meta"))
    ELSE IF RowLoopThrows(op.io[k], strict)
    THEN Failed(Settled(op, k), "TypeError")
    ELSE IF SchemaOfRows(op.io[k].rows).e.threw
    THEN Failed(Settled(op, k), "invalid schema")
    ELSE IF op.kind = "get"
    THEN GetIssue(Settled(op, k))
    ELSE PutIssue(Settled(op, k), _put(cache, op.request, "data"))

\* self.schemaCache[keyspace] = schema, in get's and put's then
CacheAfter(op, k, cache, strict) ==
    IF /\ op.io[k].stmt = "read schema" /\ op.io[k].state = "ok"
       /\ ~RowLoopThrows(op.io[k], strict)
       /\ ~SchemaOfRows(op.io[k].rows).e.threw
    THEN SchemaOfRows(op.io[k].rows)
    ELSE cache

Deliver ==
    \E i \in Ops :
        \E k \in 1..Len(operations[i].io) :
            /\ operations[i].io[k].state \in {"ok", "err"}
            /\ operations[i].pc \notin {"failed", "done"}
            /\ schemaCache' = CacheAfter(operations[i], k, schemaCache, strictPrimitives)
            /\ operations' = [operations EXCEPT ![i] =
                                 Continue(operations[i], k, schemaCache', strictPrimitives)]
            /\ UNCHANGED <<db, Others>>

Init ==
    /\ db = EmptyDb /\ schemaCache = UnsetCache /\ operations = [i \in Ops |-> NoOp]
    /\ strictPrimitives \in BOOLEAN
    /\ CondIdle /\ SchemaIdle /\ PutIdle /\ NameIdle

Next == createTable \/ get \/ put \/ delete \/ dropTable \/ DbExecute \/ DbFail \/ Deliver

Spec == Init /\ [][Next]_vars

\* DB.prototype.put past the schema load: _put(keyspace, req, consistency)
PutCompile ==
    /\ putRes = NoPutRes
    /\ putRes' = _put(putSchema, putReq, "data")
    /\ UNCHANGED <<putReq, putSchema>>
    /\ UNCHANGED <<condVars, schemaVars, sysVars, nameVars>>

InitSchema ==
    /\ schemaReq \in ValidSchemas \cup InvalidSchemas
    /\ schemaStage = "new" /\ created = NoCreated
    /\ persisted = NoDoc /\ reloaded = NoEnriched
    /\ CondIdle /\ PutIdle /\ SysIdle /\ NameIdle

NextSchema == SynthCreate \/ SynthPersist \/ SynthReload

SpecSchema == InitSchema /\ [][NextSchema]_vars

InitCond ==
    /\ pred \in Preds /\ condRes = NoResult
    /\ SchemaIdle /\ PutIdle /\ SysIdle /\ NameIdle

NextCond == Compile

SpecCond == InitCond /\ [][NextCond]_vars

InitPut ==
    /\ putReq \in PutRequests /\ putSchema \in PutCaches /\ putRes = NoPutRes
    /\ CondIdle /\ SchemaIdle /\ SysIdle /\ NameIdle

NextPut == PutCompile

SpecPut == InitPut /\ [][NextPut]_vars

----------------------------------------------------------------------------
(* keyspaceName on one pair of names of any length, and on two short pairs *)

Encode ==
    /\ nameRes = NoNameRes
    /\ nameRes' = keyspaceName(nameReq.reverseDomain, nameReq.table)
    /\ UNCHANGED <<nameReq, otherReq, otherRes>>
    /\ UNCHANGED <<condVars, schemaVars, putVars, sysVars>>

InitName ==
    /\ nameReq \in {NamePair(d, t) : d \in LongNames, t \in LongNames}
    /\ nameRes = NoNameRes /\ otherReq = NoName /\ otherRes = NoNameRes
    /\ CondIdle /\ SchemaIdle /\ PutIdle /\ SysIdle

NextName == Encode

SpecName == InitName /\ [][NextName]_vars

EncodeBoth ==
    /\ nameRes = NoNameRes
    /\ nameRes' = keyspaceName(nameReq.reverseDomain, nameReq.table)
    /\ otherRes' = keyspaceName(otherReq.reverseDomain, otherReq.table)
    /\ UNCHANGED <<nameReq, otherReq>>
    /\ UNCHANGED <<condVars, schemaVars, putVars, sysVars>>

InitPairs ==
    /\ nameReq \in {NamePair(d, t) : d \in ShortNames, t \in ShortNames}
    /\ otherReq \in {NamePair(d, t) : d \in ShortNames, t \in ShortNames}
    /\ nameRes = NoNameRes /\ otherRes = NoNameRes
    /\ CondIdle /\ SchemaIdle /\ PutIdle /\ SysIdle

NextPairs == EncodeBoth

SpecPairs == InitPairs /\ [][NextPairs]_vars

KeySet(o) == {o[i][1] : i \in 1..Len(o)}

NoRepeat(s) == \A i, j \in 1..Len(s) : s[i] = s[j] => i = j

\* hash followed by range
KeyColumns(indexSchema) == <<indexSchema.index.hash>> \o indexSchema.index.range.a

CompanionOk(primary, c) ==
    /\ KeySet(c._indexAttributes) = {c.index.hash} \cup Range(c.index.range.a)
    /\ KeySet(primary) \subseteq KeySet(c._indexAttributes)
    /\ \E i \in 1..Len(c.attributes) : c.attributes[i][2] = "timeuuid"

\* C6: every companion schema generateIndexSchema synthesizes from a valid schema
\* has _indexAttributes = {hash} united with range, a superset of the primary
\* table's _indexAttributes, and a column of type timeuuid.
C6_CompanionIndexAttributes ==
    /\ schemaStage \in {"created", "persisted", "reloaded"} =>
          \A i \in 1..Len(created.companions) :
              CompanionOk(PrimaryIndexAttributes(schemaReq), created.companions[i][2])
    /\ schemaStage = "reloaded" =>
          \A i \in 1..Len(reloaded.indexSchema) :
              CompanionOk(reloaded._indexAttributes, reloaded.indexSchema[i][2])

\* C7: the enriched schema reloaded from the persisted document equals the
\* enriched form of the user-supplied schema, and each companion's attributes,
\* key columns (none repeated) and _indexAttributes are those synthesized when
\* the companion table was created.
C7_RoundTrip ==
    schemaStage = "reloaded" =>
        /\ reloaded = Enrich(schemaReq)
        /\ \A i \in 1..Len(reloaded.indexSchema) :
              LET r == reloaded.indexSchema[i][2]
                  c == created.companions[i][2]
              IN  /\ r.attributes = c.attributes
                  /\ KeyColumns(r) = KeyColumns(c)
                  /\ NoRepeat(KeyColumns(r))
                  /\ r._indexAttributes = c._indexAttributes

IsScalar(x) == x.t \in {"string", "number", "boolean"}

\* the compilation the claim describes: '"col" = ?' and the value for a scalar
RECURSIVE ScalarsAsEquality(_, _, _)
ScalarsAsEquality(p, res, i) ==
    \/ i > Len(p)
    \/ /\ IsScalar(p[i][2]) =>
            /\ \E k \in 1..Len(res.query) - 1 :
                  res.query[k] = cassID(p[i][1]) /\ res.query[k + 1] = " = ?"
            /\ Contains(res.params, p[i][2])
       /\ ScalarsAsEquality(p, res, i + 1)

\* C8: a compiled predicate renders every scalar value (string, number, boolean)
\* as '"col" = ?' with the value appended to params; the number of '?' equals
\* the number of params.
C8_ScalarEquality ==
    (condRes # NoResult /\ ~condRes.threw) =>
        /\ ScalarsAsEquality(pred, condRes, 1)
        /\ CountPlaceholders(condRes.query) = Len(condRes.params)

\* the values bound for the non-key columns: the supplied attributes the schema
\* declares and the key leaves out, objects as their JSON text
RECURSIVE NonKeyValues(_, _, _, _)
NonKeyValues(attributes, schemaAttributes, ia, i) ==
    IF i > Len(attributes) THEN <<>>
    ELSE (IF /\ AttrOf(schemaAttributes, attributes[i][1]) # UndefT
             /\ ~Has(ia, attributes[i][1])
          THEN <<IF attributes[i][2].t = "object" THEN JSONOf(attributes[i][2])
                 ELSE attributes[i][2]>>
          ELSE <<>>) \o NonKeyValues(attributes, schemaAttributes, ia, i + 1)

KeyValues(attributes, ia) == [i \in 1..Len(ia) |-> ReqAttr(attributes, ia[i][1])]

IfNotExists(req) == req.if.t = "string" /\ NormaliseIf(req.if.s) = "not exists"

IfParams(req) == IF req.if.t = "object" THEN buildCondition(req.if.p).params ELSE <<>>

PutDispatched == putRes # NoPutRes /\ ~putRes.threw

PrimaryStatement == putRes.calls[1].statements[1]

\* C9: the primary statement of a put that supplies all key attributes is an
\* INSERT when no non-key attribute is supplied or req.if normalises to
\* "not exists" (key values bound first, then non-key values, ' if not exists'
\* appended in the latter case), and otherwise an UPDATE binding non-key values,
\* then key values, then the parameters of the IF predicate.
C9_InsertUpdateBranching ==
    PutDispatched =>
        LET e == putSchema.e
            nonKey == NonKeyValues(putReq.attributes, e.def.attributes, e._indexAttributes, 1)
            keys == KeyValues(putReq.attributes, e._indexAttributes)
            stmt == PrimaryStatement
        IN  IF nonKey = <<>> \/ IfNotExists(putReq)
            THEN /\ stmt.verb = "insert"
                 /\ stmt.params = keys \o nonKey \o IfParams(putReq)
                 /\ IfNotExists(putReq) => stmt.query[Len(stmt.query)] = " if not exists "
            ELSE /\ stmt.verb = "update"
                 /\ stmt.params = nonKey \o keys \o IfParams(putReq)

----------------------------------------------------------------------------
(* createTable, get, put and delete on the instance *)

Op(i) == operations[i]

IsCreate(c) == c.stmt = "create table"

\* the column families of a schema: data, meta and one companion per index
FamiliesOf(req) ==
    {"data", "meta"} \cup {"i_" \o name : name \in Range(Keys(req.secondaryIndexes))}

CreatedBefore(io, k, family) ==
    \E j \in 1..(k - 1) : IsCreate(io[j]) /\ io[j].target = family /\ io[j].state = "ok_d"

KeyspaceBefore(io, k) ==
    \E j \in 1..(k - 1) : io[j].stmt = "create keyspace" /\ io[j].state = "ok_d"

HasFailed(c) == c.state \in {"err", "err_d"}

\* C1: in every createTable, a create table statement is issued only after
\* the create keyspace statement has settled successfully, the put of the
\* schema document only after the create table statements of data, meta and
\* every companion have all settled successfully, and after a failed
\* statement no statement of a later step is issued.
C1_CreateTableOrdering ==
    \A i \in Ops :
        Op(i).kind = "createTable" =>
            \A k \in 1..Len(Op(i).io) :
                /\ IsCreate(Op(i).io[k]) => KeyspaceBefore(Op(i).io, k)
                /\ Op(i).io[k].stmt = "put schema" =>
                       \A f \in FamiliesOf(Op(i).schema) : CreatedBefore(Op(i).io, k, f)
                /\ (Op(i).io[k].stmt = "create keyspace" /\ HasFailed(Op(i).io[k])) =>
                       Len(Op(i).io) = 1
                /\ (IsCreate(Op(i).io[k]) /\ HasFailed(Op(i).io[k])) =>
                       \A j \in 1..Len(Op(i).io) : Op(i).io[j].stmt # "put schema"

\* a createTable with a companion went through all four states
C1_Witness ==
    \E i \in Ops :
        /\ Op(i).kind = "createTable" /\ Op(i).pc = "done"
        /\ \E k \in 1..Len(Op(i).io) : Op(i).io[k].target = "i_by_title"
        /\ db.rows # <<>>

\* C2: a createTable whose schema is invalid issues no statement at all.
C2_EagerValidation ==
    \A i \in Ops :
        (Op(i).kind = "createTable" /\ Op(i).schema.table # ""
            /\ CreateFamilies(Op(i).schema).threw)
        => Op(i).io = <<>>

\* the predicate of the request does not compile
PredicateFails(op) ==
    \/ op.kind \in {"get", "delete"} /\ op.attributes.has
          /\ buildCondition(op.attributes.p).threw
    \/ op.kind = "put" /\ op.request.if.t = "object" /\ buildCondition(op.request.if.p).threw

\* C3: a get, put or delete whose predicate does not compile issues no
\* driver call, neither the schema read nor the data statement.
C3_CompileBeforeIO ==
    \A i \in Ops : PredicateFails(Op(i)) => Op(i).io = <<>>

NoDrop == \A i \in Ops : Op(i).kind # "dropTable"

ReadReturned(op) ==
    op.io # <<>> /\ op.io[1].stmt = "read schema" /\ op.io[1].state = "ok_d"

\* C10: a put whose schema read returns no row fails with 'Table not found!'
\* and sends no write; a put called while the cache holds no schema reads
\* the schema again; and a put called once createTable has persisted the
\* schema, with a predicate that compiles and no failing driver call, does
\* not fail.
C10_PutSchemaAbsent ==
    \A i \in Ops :
        Op(i).kind = "put" =>
            /\ (ReadReturned(Op(i)) /\ Op(i).io[1].rows = <<>>) =>
                   (Op(i).pc = "failed" /\ Op(i).error = "Table not found!"
                    /\ Len(Op(i).io) = 1)
            /\ Op(i).seen # "schema" => (Op(i).io # <<>> /\ Op(i).io[1].stmt = "read schema")
            /\ (Op(i).persisted /\ NoDrop /\ ~PredicateFails(Op(i))
                   /\ \A k \in 1..Len(Op(i).io) : ~HasFailed(Op(i).io[k]))
               => Op(i).pc # "failed"

----------------------------------------------------------------------------
(* _put against one cached schema *)

\* C5: a put that is dispatched makes one driver call with n+1 statements
\* for the n secondary indexes of the cached schema, the first on data and
\* one on each i_<indexName> in order, as a batch when n+1 > 1 and an
\* execute otherwise, each statement keyed by its own table's
\* _indexAttributes; a put that throws makes no call.
C5_WriteFanOut ==
    putRes # NoPutRes =>
        IF putRes.threw THEN putRes.calls = <<>>
        ELSE /\ Len(putRes.calls) = 1
             /\ Len(putRes.calls[1].statements) = Len(DataView(putSchema.e).secondaryIndexes) + 1
             /\ putRes.calls[1].method =
                    (IF Len(DataView(putSchema.e).secondaryIndexes) + 1 > 1
                     THEN "batch" ELSE "execute")
             /\ putRes.calls[1].statements[1].table = "data"
             /\ putRes.calls[1].statements[1].keyColumns = Keys(putSchema.e._indexAttributes)
             /\ \A k \in 1..Len(DataView(putSchema.e).secondaryIndexes) :
                    /\ putRes.calls[1].statements[k + 1].table
                           = "i_" \o DataView(putSchema.e).secondaryIndexes[k]
                    /\ putRes.calls[1].statements[k + 1].keyColumns
                           = Keys(Get(putSchema.e.indexSchema,
                                      DataView(putSchema.e).secondaryIndexes[k])._indexAttributes)

\* a put on a schema with two secondary indexes went out as one batch of three
C5_Witness ==
    /\ PutDispatched
    /\ putRes.calls[1].method = "batch"
    /\ Len(putRes.calls[1].statements) = 3

----------------------------------------------------------------------------
(* keyspaceName *)

\* C11: two different (reverseDomain, table) pairs of letters, digits, '.'
\* and '_' whose parts are both encoded without hashing get different
\* keyspace names.
C11_CollisionFree ==
    (nameRes # NoNameRes /\ nameReq # otherReq /\ ~nameRes.hashed /\ ~otherRes.hashed)
    => nameRes.name # otherRes.name

\* C12: the name keyspaceName returns has at most 48 characters, all of
\* [A-Za-z0-9_], and each of its two makeValidKey results is no longer than
\* the length it was made for.
C12_NameLengthCharset ==
    nameRes # NoNameRes =>
        /\ Len(nameRes.name) <= 48
        /\ \A i \in 1..Len(nameRes.name) : nameRes.name[i] \in NameChars
        /\ Len(nameRes.prefix) <= nameRes.prefixLength
        /\ Len(nameRes.key) <= nameRes.keyLength

\* a domain with a character outside the set and a table too long for its
\* part, both hashed, gave a name of exactly 48 characters
C12_Witness ==
    /\ nameRes # NoNameRes
    /\ Contains(nameReq.reverseDomain, "-")
    /\ Len(Replaced(nameReq.table)) > nameRes.keyLength
    /\ IsValidKey(Replaced(nameReq.table))
    /\ Len(nameRes.name) = 48

----------------------------------------------------------------------------
(* The statements of a put *)

Statements == IF PutDispatched THEN putRes.calls[1].statements ELSE <<>>

\* C13: in every statement buildPutQuery produced for a put, the number of
\* '?' in the text equals the number of bound params, and an INSERT lists
\* as many columns as its values list has placeholders.
C13_WellFormedBindings ==
    \A k \in 1..Len(Statements) :
        /\ CountPlaceholders(Statements[k].query) = Len(Statements[k].params)
        /\ Statements[k].verb = "insert" =>
               Len(Statements[k].columns) = Statements[k].placeholders

PrimaryCompiled == buildPutQuery(putReq, Keyspace, "data", PutSchema(putSchema, "data"))

CompanionFails(item) ==
    \/ ~CompanionView(putSchema.e, item).found
    \/ buildPutQuery(putReq, Keyspace, item, CompanionView(putSchema.e, item)).threw

\* the data schema is there and the primary or some companion statement does not compile
CompileFails ==
    /\ PutSchema(putSchema, "data").found
    /\ \/ PrimaryCompiled.threw
       \/ \E k \in 1..Len(DataView(putSchema.e).secondaryIndexes) :
              CompanionFails(DataView(putSchema.e).secondaryIndexes[k])

\* C14: when the primary statement or any companion statement of a put does
\* not compile, the put fails and makes no driver call at all; a put that
\* fails never makes one, and a call that is made carries compiled
\* statements only.
C14_AllOrNothing ==
    putRes # NoPutRes =>
        /\ CompileFails => putRes.threw
        /\ putRes.threw => putRes.calls = <<>>
        /\ \A k \in 1..Len(Statements) : ~Statements[k].threw

\* the primary statement compiled, a companion's key attribute is missing
\* from the request, and the put failed
C14_Witness ==
    /\ putRes # NoPutRes /\ putRes.threw /\ putRes.calls = <<>>
    /\ putSchema.state = "schema"
    /\ ~PrimaryCompiled.threw
    /\ \E k \in 1..Len(DataView(putSchema.e).secondaryIndexes) :
           CompanionFails(DataView(putSchema.e).secondaryIndexes[k])

====
